---- MODULE Spec2Model ----
(***************************************************************************)
(* growi-plugin-attachment-refs.                                           *)
(*                                                                         *)
(*   SpecRender : the pre-render interceptor (process / initializeCache)   *)
(*                and the shared state cache it clears.                    *)
(*   SpecDepth  : addDepthCondition as a pure function of (pagePath,       *)
(*                depth option).                                           *)
(*   SpecRoutes : the GET /ref and GET /refs handlers, split at their      *)
(*                awaits, against a small page / attachment store.         *)
(*                                                                         *)
(* A page path is the sequence of its segments, each one preceded by a     *)
(* '/' in the string: "/docs/a" is <<"docs","a">>, "/" is <<"">> and       *)
(* "/docs/" is <<"docs","">>.  The number of '/' in a path is its length.  *)
(***************************************************************************)
EXTENDS Integers, Sequences, FiniteSets, TLC

VARIABLES
    \* ---- interceptor ----
    calls,      \* per process call: class, contextName, pc, locals
    heap,       \* per call: the caller's context object and a possible copy
    cache,      \* the state cache: the set of cached tag signatures
    \* ---- addDepthCondition alone ----
    dPagePath, dDepth, dResult, dPc,
    \* ---- routes ----
    req,        \* the request being served and the handler's locals
    visible     \* page store: the pages the viewer may read (grants change)

vars == <<calls, heap, cache, dPagePath, dDepth, dResult, dPc, req, visible>>

Null == "null"

\* each part of the program leaves the state of the others alone
RenderOnly == UNCHANGED <<dPagePath, dDepth, dResult, dPc, req, visible>>
DepthOnly  == UNCHANGED <<calls, heap, cache, req, visible>>
RoutesOnly == UNCHANGED <<calls, heap, cache, dPagePath, dDepth, dResult, dPc>>

(***************************************************************************)
(*                         I N T E R C E P T O R                           *)
(***************************************************************************)

MaxCalls == 2
CallIds == 1..MaxCalls

Classes == {"RefsPreRenderInterceptor", "PreRenderInterceptor"}
ContextNames == {"preRenderHtml", "preRenderPreviewHtml", "postRenderHtml"}

\* tag signatures a downstream consumer memoizes state under
CacheKeys == {"ref(a.png)", "refs(/docs)"}

Text == [t |-> "text", method |-> "", args |-> "", n |-> 0]
Tag(m, a) == [t |-> "tag", method |-> m, args |-> a, n |-> 0]
Div(m, i) == [t |-> "div", method |-> m, args |-> "", n |-> i]

\* contents handed to process: a block of rendered content as its pieces
HtmlInputs ==
    { <<Text>>,
      <<Tag("refs", "/docs"), Text, Tag("ref", "a.png")>>,
      <<Tag("lsx", "/docs"), Tag("refsimg", "/docs"), Tag("refimg", "b.png")>> }

\* an object of the heap: its parsedHTML, the names of the fields it carries and
\* the tag context map stored in it (empty until one is stored)
NoObj == [parsedHTML |-> <<>>, fields |-> {"absent"}, contextMap |-> {}]
NewContext(html) == [parsedHTML |-> html, fields |-> {"parsedHTML"}, contextMap |-> {}]

IdleCall == [klass |-> "RefsPreRenderInterceptor", contextName |-> "preRenderHtml",
             pc |-> "idle", context |-> "arg", parsedHTML |-> <<>>,
             result |-> [html |-> <<>>, tagContextMap |-> {}],
             given |-> NoObj, entryCache |-> {}, returned |-> Null]

isInterceptWhen(contextName) ==
    \/ contextName = "preRenderHtml"
    \/ contextName = "preRenderPreviewHtml"

isProcessableParallel(klass) ==
    IF klass = "RefsPreRenderInterceptor" THEN FALSE ELSE TRUE

\* the tag pattern /ref|refs|refimg|refsimg/ as findTagAndReplace uses it,
\* between "$" and "(": the method names it recognises
tagPattern == {"ref", "refs", "refimg", "refsimg"}

RECURSIVE ReplaceFrom(_, _, _)
ReplaceFrom(pattern, html, i) ==
    IF i > Len(html) THEN <<>>
    ELSE LET tok == html[i]
             out == IF tok.t = "tag" /\ tok.method \in pattern
                    THEN Div(tok.method, i) ELSE tok
         IN  <<out>> \o ReplaceFrom(pattern, html, i + 1)

findTagAndReplace(pattern, html) ==
    [html |-> ReplaceFrom(pattern, html, 1),
     tagContextMap |->
        { [domId |-> <<html[i].method, i>>, method |-> html[i].method, args |-> html[i].args] :
            i \in { j \in 1..Len(html) : html[j].t = "tag" /\ html[j].method \in pattern } }]

\* Object.assign(target) with no source: returns target itself
ObjectAssign(target) == target

clearAllStateCaches(c) == {}

initializeCacheAlways(contextName, c) == clearAllStateCaches(c)

initializeCacheSwapped(contextName, c) ==
    IF contextName = "preRenderPreviewHtml" THEN clearAllStateCaches(c) ELSE c

initializeCache(contextName, c) ==
    IF contextName = "preRenderHtml" THEN clearAllStateCaches(c) ELSE c

\* the map field process sets on the context, per class
MapField(klass) ==
    IF klass = "RefsPreRenderInterceptor" THEN "refsContextMap" ELSE "tagContextMap"

MidFlight == {"clone", "init", "scan", "assign"}
Running == { c \in CallIds : calls[c].pc \in MidFlight }

SuspendedAtScan(pcv) == pcv = "scan"

\* process is async but its body holds no await: once called it runs to its
\* return without giving the thread to any other task
SuspendedAt(pcv) == FALSE

\* another task (a new process call, a consumer's callback) may run
ThreadFree == \A d \in Running : SuspendedAt(calls[d].pc)

RenderInit ==
    /\ calls = [c \in CallIds |-> IdleCall]
    /\ heap = [c \in CallIds |-> [arg |-> NoObj, copy |-> NoObj]]
    /\ cache = {}

\* the host calls process(contextName, context) on an interceptor that
\* answered isInterceptWhen(contextName)
Invoke(c) ==
    /\ RenderOnly
    /\ calls[c].pc = "idle"
    /\ ThreadFree
    /\ \E k \in Classes, name \in ContextNames, html \in HtmlInputs :
        /\ isInterceptWhen(name)
        /\ heap' = [heap EXCEPT ![c] = [arg |-> NewContext(html), copy |-> NoObj]]
        /\ calls' = [calls EXCEPT ![c] =
                        [IdleCall EXCEPT !.klass = k, !.contextName = name,
                                         !.pc = "clone", !.given = NewContext(html),
                                         !.entryCache = cache]]
    /\ UNCHANGED cache

\* const context = Object.assign(args[0]); const parsedHTML = context.parsedHTML;
Clone(c) ==
    /\ RenderOnly
    /\ calls[c].pc = "clone"
    /\ LET ref == ObjectAssign("arg")
           h2  == IF ref = "copy" THEN [heap[c] EXCEPT !.copy = heap[c].arg] ELSE heap[c]
       IN  /\ heap' = [heap EXCEPT ![c] = h2]
           /\ calls' = [calls EXCEPT ![c].pc = "init", ![c].context = ref,
                                     ![c].parsedHTML = h2[ref].parsedHTML]
    /\ UNCHANGED cache

\* this.initializeCache(contextName);  (PreRenderInterceptor: context.lsxContextMap = {})
InitializeCache(c) ==
    /\ RenderOnly
    /\ calls[c].pc = "init"
    /\ cache' = initializeCache(calls[c].contextName, cache)
    /\ calls' = [calls EXCEPT ![c].pc = "scan"]
    /\ heap' = IF calls[c].klass = "PreRenderInterceptor"
               THEN [heap EXCEPT ![c][calls[c].context].fields = @ \cup {"lsxContextMap"}]
               ELSE heap

\* const result = customTagUtils.findTagAndReplace(tagPattern, parsedHTML);
Scan(c) ==
    /\ RenderOnly
    /\ calls[c].pc = "scan"
    /\ calls' = [calls EXCEPT ![c].pc = "assign",
                              ![c].result = findTagAndReplace(tagPattern, calls[c].parsedHTML)]
    /\ UNCHANGED <<heap, cache>>

\* context.parsedHTML = result.html; context.<map> = result.tagContextMap; return context;
Assign(c) ==
    /\ RenderOnly
    /\ calls[c].pc = "assign"
    /\ heap' = [heap EXCEPT ![c][calls[c].context] =
                    [parsedHTML |-> calls[c].result.html,
                     fields |-> (@.fields \ {"absent"}) \cup {"parsedHTML", MapField(calls[c].klass)},
                     contextMap |-> calls[c].result.tagContextMap]]
    /\ calls' = [calls EXCEPT ![c].pc = "done", ![c].returned = calls[c].context,
                              ![c].entryCache = {}]
    /\ UNCHANGED cache

\* the caller is finished with the returned context
Discard(c) ==
    /\ RenderOnly
    /\ calls[c].pc = "done"
    /\ ThreadFree
    /\ calls' = [calls EXCEPT ![c] = IdleCall]
    /\ heap' = [heap EXCEPT ![c] = [arg |-> NoObj, copy |-> NoObj]]
    /\ UNCHANGED cache

\* a downstream consumer memoizes the state it resolved for a tag
CacheState ==
    /\ RenderOnly
    /\ ThreadFree
    /\ \E k \in CacheKeys : k \notin cache /\ cache' = cache \cup {k}
    /\ UNCHANGED <<calls, heap>>

RenderNext ==
    \/ \E c \in CallIds : Invoke(c)
    \/ \E c \in CallIds : Clone(c)
    \/ \E c \in CallIds : InitializeCache(c)
    \/ \E c \in CallIds : Scan(c)
    \/ \E c \in CallIds : Assign(c)
    \/ \E c \in CallIds : Discard(c)
    \/ CacheState

(***************************************************************************)
(*                     a d d D e p t h C o n d i t i o n                   *)
(***************************************************************************)

MaxDigit == 3
MaxDepthLen == 3

DigitChar == <<"0", "1", "2", "3", "4", "5", "6", "7", "8", "9">>
Digits == { DigitChar[d + 1] : d \in 0..MaxDigit }
DepthChars == { "-", ":", "+", "x" } \cup Digits

IsDigit(ch) == ch \in Digits
DigitValue(ch) == CHOOSE d \in 0..9 : DigitChar[d + 1] = ch

RECURSIVE Strings(_)
Strings(n) ==
    IF n = 0 THEN { <<>> }
    ELSE LET shorter == Strings(n - 1)
         IN  shorter \cup { Append(s, ch) : s \in { t \in shorter : Len(t) = n - 1 }, ch \in DepthChars }

\* the value of options.depth: absent, true ("depth=" without a value), or a string
DepthNull == [kind |-> "null", s |-> <<>>]
DepthTrue == [kind |-> "true", s |-> <<>>]
DepthStr(s) == [kind |-> "str", s |-> s]

\* -?[0-9]+
IsInt(s) ==
    LET body == IF Len(s) > 0 /\ s[1] = "-" THEN Tail(s) ELSE s
    IN  /\ Len(body) > 0
        /\ \A i \in 1..Len(body) : IsDigit(body[i])

RECURSIVE DigitsValue(_)
DigitsValue(s) ==
    IF Len(s) = 0 THEN 0
    ELSE 10 * DigitsValue(SubSeq(s, 1, Len(s) - 1)) + DigitValue(s[Len(s)])

\* unary plus on a matched -?[0-9]+
ToNumber(s) ==
    IF s[1] = "-" THEN 0 - DigitsValue(Tail(s)) ELSE DigitsValue(s)

NoRange == [isNull |-> TRUE, start |-> 0, end |-> 0]
Range(s, e) == [isNull |-> FALSE, start |-> s, end |-> e]

\* OptionParser.parseRange: /^(-?[0-9]+)(([:+]{1})(-?[0-9]+)?)?$/
parseRange(str) ==
    LET ops == { i \in 1..Len(str) : str[i] \in {":", "+"} }
    IN  IF ops = {}
        THEN IF IsInt(str) THEN Range(1, ToNumber(str)) ELSE NoRange
        ELSE LET i == CHOOSE j \in ops : \A k \in ops : j <= k
                 left == SubSeq(str, 1, i - 1)
                 right == SubSeq(str, i + 1, Len(str))
             IN  IF ~IsInt(left) \/ ~(right = <<>> \/ IsInt(right)) THEN NoRange
                 ELSE LET start == ToNumber(left)
                          given == IF right = <<>> THEN 0 ELSE ToNumber(right)
                      IN  IF str[i] = ":"
                          THEN Range(start, IF given = 0 THEN 0 - 1 ELSE given)
                          ELSE Range(start, given + start)

\* pagePath.split('/').length - 1
SlashNum(pagePath) == Len(pagePath)

RangeRejectedBoth(start, end) == start < 1 /\ end < 1

\* if (start < 1 || end < 1) throw
RangeRejected(start, end) == start < 1 \/ end < 1

\* const depthStart = slashNum;
DepthStart(slashNum, start) == slashNum

DepthEndOffByOne(slashNum, end) == slashNum + end

\* const depthEnd = slashNum + end - 1;
DepthEnd(slashNum, end) == slashNum + end - 1

Threw == [threw |-> TRUE, start |-> 0, end |-> 0, depthStart |-> 0, depthEnd |-> 0]

\* the condition addDepthCondition adds to the query, or that it threw
addDepthCondition(pagePath, optionsDepth) ==
    IF optionsDepth.kind \in {"null", "true"} THEN Threw
    ELSE LET range == parseRange(optionsDepth.s)
         IN  IF range.isNull THEN Threw    \* range.start of null: TypeError
             ELSE IF RangeRejected(range.start, range.end) THEN Threw
             ELSE [threw |-> FALSE, start |-> range.start, end |-> range.end,
                   depthStart |-> DepthStart(SlashNum(pagePath), range.start),
                   depthEnd |-> DepthEnd(SlashNum(pagePath), range.end)]

\* path matches new RegExp(`^(\/[^\/]*){depthStart,depthEnd}$`)
MatchesDepth(path, cond) ==
    cond.depthStart <= Len(path) /\ Len(path) <= cond.depthEnd

DepthPaths == { <<"">>, <<"docs">>, <<"docs", "">>, <<"docs", "a">>, <<"docs", "a", "b">> }
DepthValues == {DepthNull, DepthTrue} \cup { DepthStr(s) : s \in Strings(MaxDepthLen) }

DepthInit ==
    /\ dPagePath \in DepthPaths
    /\ dDepth \in DepthValues
    /\ dResult = Threw
    /\ dPc = "input"

ApplyDepth ==
    /\ DepthOnly
    /\ dPc = "input"
    /\ dResult' = addDepthCondition(dPagePath, dDepth)
    /\ dPc' = "done"
    /\ UNCHANGED <<dPagePath, dDepth>>

DepthNext == ApplyDepth

(***************************************************************************)
(*                              R O U T E S                                *)
(***************************************************************************)

\* a query parameter that was not sent
NoPath == <<"undefined">>

Root == <<"">>

\* ---- the page store and the attachment store (collaborators) ----

Pages ==
    { [id |-> "root",   path |-> Root,                  redirectTo |-> FALSE],
      [id |-> "docs",   path |-> <<"docs">>,            redirectTo |-> FALSE],
      [id |-> "docsA",  path |-> <<"docs", "a">>,       redirectTo |-> FALSE],
      [id |-> "docsAB", path |-> <<"docs", "a", "b">>,  redirectTo |-> FALSE],
      [id |-> "old",    path |-> <<"docs", "old">>,     redirectTo |-> TRUE],
      [id |-> "secret", path |-> <<"secret">>,          redirectTo |-> FALSE],
      [id |-> "trashed", path |-> <<"trash", "docs">>,  redirectTo |-> FALSE] }

PageIds == { p.id : p \in Pages }

\* pages whose grant an administrator may change while requests are served
Restrictable == {"secret", "docsA"}

Attachments ==
    { [id |-> "att-root",   page |-> "root",   originalName |-> "root.png"],
      [id |-> "att-docs",   page |-> "docs",   originalName |-> "image.png"],
      [id |-> "att-docsA",  page |-> "docsA",  originalName |-> "a.PNG"],
      [id |-> "att-docsAB", page |-> "docsAB", originalName |-> "b.txt"],
      [id |-> "att-old",    page |-> "old",    originalName |-> "old.png"],
      [id |-> "att-secret", page |-> "secret", originalName |-> "s.png"],
      [id |-> "att-trash",  page |-> "trashed", originalName |-> "t.png"] }

AttachmentOf(id) == CHOOSE a \in Attachments : a.id = id

\* a path without its trailing slash; "/" normalizes to no segment at all
Normalized(path) ==
    IF Len(path) > 0 /\ path[Len(path)] = "" THEN SubSeq(path, 1, Len(path) - 1) ELSE path

\* descendantsOf(prefix): the page at the prefix, or a path that starts with
\* the prefix and a slash
IsDescendant(path, prefix) ==
    LET q == Normalized(prefix)
    IN  \/ (q # <<>> /\ path = q)
        \/ (Len(path) > Len(q) /\ SubSeq(path, 1, Len(q)) = q)

IsTrashed(path) == path[1] = "trash"

\* what the regex option values of the model are, as strings
\*   plain source, or the form /source/flags
RegexPng      == [slashed |-> FALSE, source |-> "png", flags |-> ""]
RegexPngI     == [slashed |-> TRUE,  source |-> "png", flags |-> "i"]
RegexBad      == [slashed |-> FALSE, source |-> "not(a valid regex", flags |-> ""]
RegexBadFlags == [slashed |-> TRUE,  source |-> "png", flags |-> "z"]
RegexEmpty    == [slashed |-> FALSE, source |-> "", flags |-> ""]
RegexNull     == [slashed |-> FALSE, source |-> Null, flags |-> ""]

\* new RegExp(source, flags) throws
RegExpThrows(source, flags) ==
    source = "not(a valid regex" \/ flags \notin {"", "i"}

\* regex.test(name) for the sources and names of the model
RegExpTest(regex, name) ==
    CASE regex.source = "" -> TRUE
      [] regex.source = "png" /\ regex.flags = "" ->
            name \in {"root.png", "image.png", "old.png", "s.png", "t.png"}
      [] regex.source = "png" /\ regex.flags = "i" ->
            name \in {"root.png", "image.png", "old.png", "s.png", "t.png", "a.PNG"}
      [] OTHER -> FALSE

NoRegex == [set |-> FALSE, threw |-> FALSE, source |-> "", flags |-> ""]

\* generateRegexp: /^\/(.+)\/(.*)?$/ splits "/source/flags", anything else is the source
generateRegexp(expression) ==
    LET source == expression.source
        flags == IF expression.slashed THEN expression.flags ELSE ""
    IN  [set |-> TRUE, threw |-> RegExpThrows(source, flags), source |-> source, flags |-> flags]

\* options.regexp || options.regex : null, undefined and "" are falsy
OrElse(a, b) == IF a = RegexNull \/ a = RegexEmpty THEN b ELSE a

\* ---- queries ----

NoCond == [threw |-> TRUE, start |-> 0, end |-> 0, depthStart |-> 0, depthEnd |-> 0]
NoQuery == [pathEq |-> NoPath, conds |-> {}, prefix |-> NoPath, depth |-> NoCond]

RefsBuildQueryUnfiltered(prefix, pagePath) ==
    IF prefix # NoPath
    THEN [pathEq |-> NoPath, conds |-> {"descendants", "excludeTrashed", "excludeRedirect"},
          prefix |-> prefix, depth |-> NoCond]
    ELSE [pathEq |-> pagePath, conds |-> {"pathEq"}, prefix |-> NoPath, depth |-> NoCond]

\* lines 149-165: the builder for the descendants of prefix or for the single
\* page, then Page.addConditionToFilteringByViewerForList(builder, user, false)
RefsBuildQuery(prefix, pagePath) ==
    LET b == RefsBuildQueryUnfiltered(prefix, pagePath)
    IN  [b EXCEPT !.conds = @ \cup {"viewer"}]

\* the collaborator calls made while building it, in order
RefsBuildCalls(prefix) ==
    IF prefix # NoPath
    THEN <<"Page.find", "PageQueryBuilder", "addConditionToListWithDescendants",
           "addConditionToExcludeTrashed", "addConditionToExcludeRedirect",
           "Page.addConditionToFilteringByViewerForList">>
    ELSE <<"Page.find", "PageQueryBuilder", "Page.addConditionToFilteringByViewerForList">>

\* pageQuery.select('id').exec() against the store as it is now
ExecPageQuery(q, vis) ==
    { p.id : p \in { p \in Pages :
        /\ ("pathEq" \in q.conds => p.path = q.pathEq)
        /\ ("descendants" \in q.conds => IsDescendant(p.path, q.prefix))
        /\ ("excludeTrashed" \in q.conds => ~IsTrashed(p.path))
        /\ ("excludeRedirect" \in q.conds => ~p.redirectTo)
        /\ ("viewer" \in q.conds => p.id \in vis)
        /\ ("depth" \in q.conds => MatchesDepth(p.path, q.depth)) } }

\* Attachment.find({page: {$in: pageIds}}) and the regex condition, if any
ExecAttachmentQuery(pageIds, regex) ==
    { a.id : a \in { a \in Attachments :
        /\ a.page \in pageIds
        /\ (regex.set => RegExpTest(regex, a.originalName)) } }

\* Page.findByPathAndViewer(pagePath, user)
findByPathAndViewer(pagePath, vis) ==
    LET found == { p \in Pages : p.path = pagePath /\ p.id \in vis }
    IN  IF found = {} THEN Null ELSE (CHOOSE p \in found : TRUE).id

\* Attachment.findOne({page, $or: [{_id: fileNameOrId}, {originalName: fileNameOrId}]})
findOneAttachment(pageId, fileNameOrId) ==
    LET found == { a \in Attachments :
                     a.page = pageId /\ (a.id = fileNameOrId \/ a.originalName = fileNameOrId) }
    IN  IF found = {} THEN Null ELSE (CHOOSE a \in found : TRUE).id

\* Page.isAccessiblePageByViewer(attachment.page, user)
isAccessiblePageByViewer(pageId, vis) == pageId \in vis

\* the calls that look something up in a store (the rest only build a query)
Lookups == {"Page.findByPathAndViewer", "Attachment.findOne", "Page.isAccessiblePageByViewer",
            "pageQuery.exec", "attachmentQuery.exec"}

\* ---- requests ----

NoOptions == [parsed |-> FALSE, regexp |-> RegexNull, regex |-> RegexNull, depth |-> DepthNull]

IdleReq == [endpoint |-> "none", pc |-> "idle",
            prefix |-> NoPath, pagePath |-> NoPath, fileNameOrId |-> "",
            options |-> NoOptions,
            regex |-> NoRegex, query |-> NoQuery,
            page |-> Null, attachment |-> Null, pageIds |-> {},
            status |-> 0, attachments |-> {}, threw |-> FALSE,
            calls |-> <<>>, seenVisible |-> {}, accessVisible |-> {}]

RefPagePaths == {NoPath, <<"docs">>, <<"secret">>, <<"missing">>}
FileNamesOrIds == {"image.png", "att-docs", "s.png", "missing.png"}

RefsPrefixes == {NoPath, Root, <<"docs">>, <<"docs", "">>, <<"docs", "a">>}
RefsPagePaths == {NoPath, <<"docs">>, <<"secret">>}
RegexOptions == {RegexNull, RegexPng, RegexPngI, RegexBad, RegexBadFlags, RegexEmpty}
DepthOptions ==
    { DepthNull, DepthTrue,
      DepthStr(<<"1">>), DepthStr(<<"2">>), DepthStr(<<"0">>), DepthStr(<<"x">>),
      DepthStr(<<"0", ":", "2">>), DepthStr(<<"2", ":", "0">>), DepthStr(<<"1", ":", "2">>) }

RefOptions == {NoOptions, [NoOptions EXCEPT !.parsed = TRUE]}
RefsOptions ==
    {NoOptions} \cup
    { [parsed |-> TRUE, regexp |-> rp, regex |-> rx, depth |-> d] :
        rp \in {RegexNull, RegexPng}, rx \in RegexOptions, d \in DepthOptions }

Respond(r, code) == [r EXCEPT !.pc = "done", !.status = code]

RefMissingParamNever(pagePath) == FALSE

\* if (pagePath == null)
RefMissingParam(pagePath) == pagePath = NoPath

RefAccessStatusCollapsed(isAccessible) == IF ~isAccessible THEN 404 ELSE 200

\* if (!isAccessible) 403, else 200
RefAccessStatus(isAccessible) == IF ~isAccessible THEN 403 ELSE 200

\* GET /ref up to its first await
RefStart ==
    /\ RoutesOnly
    /\ req.pc = "idle"
    /\ \E pp \in RefPagePaths, f \in FileNamesOrIds, o \in RefOptions :
        LET r == [IdleReq EXCEPT !.endpoint = "ref", !.pagePath = pp,
                                 !.fileNameOrId = f, !.options = o]
        IN  req' = IF ~o.parsed
                   THEN [r EXCEPT !.pc = "done", !.threw = TRUE]    \* JSON.parse throws
                   ELSE IF RefMissingParam(pp) THEN Respond(r, 400)
                   ELSE [r EXCEPT !.pc = "awaitPage",
                                  !.calls = <<"Page.findByPathAndViewer">>]
    /\ UNCHANGED visible

\* const page = await Page.findByPathAndViewer(pagePath, user);
RefPageFound ==
    /\ RoutesOnly
    /\ req.pc = "awaitPage"
    /\ LET page == findByPathAndViewer(req.pagePath, visible)
           r == [req EXCEPT !.page = page, !.seenVisible = visible]
       IN  req' = IF page = Null THEN Respond(r, 404)
                  ELSE [r EXCEPT !.pc = "awaitAttachment",
                                 !.calls = Append(@, "Attachment.findOne")]
    /\ UNCHANGED visible

\* const attachment = await Attachment.findOne(...)
RefAttachmentFound ==
    /\ RoutesOnly
    /\ req.pc = "awaitAttachment"
    /\ LET attachment == findOneAttachment(req.page, req.fileNameOrId)
           r == [req EXCEPT !.attachment = attachment]
       IN  req' = IF attachment = Null THEN Respond(r, 404)
                  ELSE [r EXCEPT !.pc = "awaitAccess",
                                 !.calls = Append(@, "Page.isAccessiblePageByViewer")]
    /\ UNCHANGED visible

\* const isAccessible = await Page.isAccessiblePageByViewer(attachment.page, user);
RefAccessChecked ==
    /\ RoutesOnly
    /\ req.pc = "awaitAccess"
    /\ LET isAccessible == isAccessiblePageByViewer(AttachmentOf(req.attachment).page, visible)
           code == RefAccessStatus(isAccessible)
       IN  req' = [Respond(req, code) EXCEPT
                      !.attachments = IF code = 200 THEN {req.attachment} ELSE {},
                      !.accessVisible = visible]
    /\ UNCHANGED visible

\* GET /refs up to its first await
RefsStart ==
    /\ RoutesOnly
    /\ req.pc = "idle"
    /\ \E pf \in RefsPrefixes, pp \in RefsPagePaths, o \in RefsOptions :
        LET r == [IdleReq EXCEPT !.endpoint = "refs", !.prefix = pf, !.pagePath = pp,
                                 !.options = o]
            regexOptionValue == OrElse(o.regexp, o.regex)
            regex == IF regexOptionValue # RegexNull /\ regexOptionValue # RegexEmpty
                     THEN generateRegexp(regexOptionValue) ELSE NoRegex
            built == RefsBuildQuery(pf, pp)
            cond == addDepthCondition(pf, o.depth)
            r2 == [r EXCEPT !.regex = regex, !.query = built, !.calls = RefsBuildCalls(pf)]
        IN  req' = IF ~o.parsed
                   THEN [r EXCEPT !.pc = "done", !.threw = TRUE]    \* JSON.parse throws
                   ELSE IF pf = NoPath /\ pp = NoPath THEN Respond(r, 400)
                   ELSE IF regex.threw THEN Respond(r, 400)
                   ELSE IF pf # NoPath /\ o.depth # DepthNull
                   THEN IF cond.threw THEN Respond(r2, 400)
                        ELSE [r2 EXCEPT !.pc = "awaitPages",
                                        !.query = [built EXCEPT !.conds = @ \cup {"depth"},
                                                                !.depth = cond],
                                        !.calls = Append(@, "pageQuery.exec")]
                   ELSE [r2 EXCEPT !.pc = "awaitPages", !.calls = Append(@, "pageQuery.exec")]
    /\ UNCHANGED visible

\* const results = await pageQuery.select('id').exec(); ... Attachment.find(...)
RefsPagesFound ==
    /\ RoutesOnly
    /\ req.pc = "awaitPages"
    /\ req' = [req EXCEPT !.pageIds = ExecPageQuery(req.query, visible),
                          !.seenVisible = visible,
                          !.pc = "awaitAttachments",
                          !.calls = Append(@, "attachmentQuery.exec")]
    /\ UNCHANGED visible

\* const attachments = await query.populate(...).exec(); res.status(200).send({ attachments });
RefsAttachmentsFound ==
    /\ RoutesOnly
    /\ req.pc = "awaitAttachments"
    /\ req' = [Respond(req, 200) EXCEPT !.attachments = ExecAttachmentQuery(req.pageIds, req.regex)]
    /\ UNCHANGED visible

\* the response is out (or the handler threw); the next request comes in
NextRequest ==
    /\ RoutesOnly
    /\ req.pc = "done"
    /\ req' = IdleReq
    /\ UNCHANGED visible

\* somebody changes the grant of a page while requests are served
ChangeGrant ==
    /\ RoutesOnly
    /\ \E p \in Restrictable :
        visible' = IF p \in visible THEN visible \ {p} ELSE visible \cup {p}
    /\ UNCHANGED req

RoutesInit ==
    /\ req = IdleReq
    /\ visible \in { PageIds \ hidden : hidden \in SUBSET Restrictable }

RoutesNext ==
    \/ RefStart
    \/ RefPageFound
    \/ RefAttachmentFound
    \/ RefAccessChecked
    \/ RefsStart
    \/ RefsPagesFound
    \/ RefsAttachmentsFound
    \/ NextRequest
    \/ ChangeGrant

(***************************************************************************)
(*                       S P E C I F I C A T I O N S                       *)
(***************************************************************************)

\* the parts a specification leaves alone stay as they are here
DepthIdle  == dPagePath = Root /\ dDepth = DepthNull /\ dResult = Threw /\ dPc = "done"
RoutesIdle == req = IdleReq /\ visible = PageIds

InitRender == RenderInit /\ DepthIdle /\ RoutesIdle
NextRender == RenderNext
SpecRender == InitRender /\ [][NextRender]_vars

InitDepth == DepthInit /\ RenderInit /\ RoutesIdle
NextDepth == DepthNext
SpecDepth == InitDepth /\ [][NextDepth]_vars

InitRoutes == RoutesInit /\ RenderInit /\ DepthIdle
NextRoutes == RoutesNext
SpecRoutes == InitRoutes /\ [][NextRoutes]_vars

(***************************************************************************)
(*                            P R O P E R T I E S                          *)
(***************************************************************************)

FullRender(c) == calls[c].contextName = "preRenderHtml"
PreviewRender(c) == calls[c].contextName = "preRenderPreviewHtml"

\* C1: a process call with context name 'preRenderHtml' reaches its tag scan
\* (and everything after it, up to its return) with the state cache empty:
\* clearAllStateCaches has run before findTagAndReplace of the same call.
C1_ClearBeforeScan ==
    \A c \in CallIds :
        (FullRender(c) /\ calls[c].pc \in {"scan", "assign"}) => cache = {}

\* a full render at its scan step that found entries of an earlier pass on entry
C1_Witness ==
    \E c \in CallIds :
        FullRender(c) /\ calls[c].pc = "scan" /\ calls[c].entryCache # {}

\* C2: a preview process call leaves the state cache as it found it, a step
\* that removes an entry from the cache is the initializeCache step of a full
\* render, and that step of a full render leaves the cache empty.
C2_OnlyFullRenderClears ==
    [][ /\ \A c \in CallIds :
            (PreviewRender(c) /\ calls[c].pc \in MidFlight /\ calls'[c].pc # calls[c].pc)
                => cache' = cache
        /\ (cache \ cache' # {}) =>
                \E c \in CallIds :
                    FullRender(c) /\ calls[c].pc = "init" /\ calls'[c].pc = "scan"
        /\ \A c \in CallIds :
            (FullRender(c) /\ calls[c].pc = "init" /\ calls'[c].pc = "scan") => cache' = {}
      ]_vars

\* a preview pass past its initializeCache step with the entries an earlier
\* pass left still in the cache
C2_Witness ==
    \E c \in CallIds :
        /\ PreviewRender(c) /\ calls[c].pc = "assign"
        /\ calls[c].entryCache # {} /\ cache = calls[c].entryCache

C10_CallerContextUnchanged ==
    \A c \in CallIds :
        calls[c].pc = "done" => heap[c].arg = calls[c].given

\* ---- addDepthCondition ----

\* the depth option is a single integer "n" with n >= 1
IsSingleDepth(d) == d.kind = "str" /\ IsInt(d.s) /\ ToNumber(d.s) >= 1
SingleDepth(d) == ToNumber(d.s)

\* C6 as claimed: for a single-integer depth "n" (n >= 1) both bounds of the
\* depth predicate equal slashCount + n - 1.
C6_BothBoundsCollapse ==
    (dPc = "done" /\ IsSingleDepth(dDepth)) =>
        /\ ~dResult.threw
        /\ dResult.depthStart = SlashNum(dPagePath) + SingleDepth(dDepth) - 1
        /\ dResult.depthEnd = SlashNum(dPagePath) + SingleDepth(dDepth) - 1

\* C6 amended: for a single-integer depth "n" (n >= 1) the upper bound of the
\* depth predicate is slashCount + n - 1 and the lower bound is slashCount.
C6_SingleDepthBounds ==
    (dPc = "done" /\ IsSingleDepth(dDepth)) =>
        /\ ~dResult.threw
        /\ dResult.depthStart = SlashNum(dPagePath)
        /\ dResult.depthEnd = SlashNum(dPagePath) + SingleDepth(dDepth) - 1

\* a predicate built for a single depth above 1, where the two bounds differ
C6_Witness ==
    /\ dPc = "done" /\ IsSingleDepth(dDepth) /\ SingleDepth(dDepth) >= 2
    /\ ~dResult.threw /\ dResult.depthStart < dResult.depthEnd

\* ---- routes ----

Served(endpoint) == req.endpoint = endpoint /\ req.pc = "done" /\ ~req.threw
Looked == { req.calls[i] : i \in 1..Len(req.calls) } \cap Lookups

PageIdsAt(path) == { p.id : p \in { q \in Pages : q.path = path } }
AttachmentsAt(path, fileNameOrId) ==
    { a \in Attachments : a.page \in PageIdsAt(path)
                          /\ (a.id = fileNameOrId \/ a.originalName = fileNameOrId) }

\* C3: on GET /refs the page query that is executed carries the viewer filter,
\* every attachment of a 200 response belongs to a page the viewer could read
\* when the page query ran, no /refs response is 403, and a request by
\* pagePath for a page the viewer cannot read ends 200 with no attachment.
C3_VisibilityFiltered ==
    /\ (req.endpoint = "refs" /\ req.pc = "awaitPages") => "viewer" \in req.query.conds
    /\ (Served("refs") /\ req.status = 200) =>
            \A a \in req.attachments : AttachmentOf(a).page \in req.seenVisible
    /\ Served("refs") => req.status \in {200, 400}
    /\ (Served("refs") /\ req.status # 400 /\ req.prefix = NoPath
            /\ PageIdsAt(req.pagePath) \cap req.seenVisible = {})
        => (req.status = 200 /\ req.attachments = {})

\* GET /refs?pagePath=/secret answered while the viewer may not read /secret
C3_Witness ==
    /\ Served("refs") /\ req.prefix = NoPath /\ req.pagePath = <<"secret">>
    /\ "secret" \notin req.seenVisible
    /\ req.status = 200 /\ req.attachments = {}

\* C4 as claimed: GET /ref answers 404 only when the page or the attachment
\* does not exist.
C4_NotFoundOnlyWhenAbsent ==
    (Served("ref") /\ req.status = 404) =>
        \/ PageIdsAt(req.pagePath) = {}
        \/ AttachmentsAt(req.pagePath, req.fileNameOrId) = {}

\* C4 amended: GET /ref answers 404 when the lookup of the page by pagePath
\* and viewer finds nothing (no such page, or one the viewer could not read at
\* that moment) or no attachment of the page matches; it answers 403 exactly
\* when both were found and the later access check on the attachment's page
\* fails, and 200 when that check succeeds.
C4_NotFoundOrForbidden ==
    Served("ref") /\ req.status # 400 =>
        LET pageSeen == PageIdsAt(req.pagePath) \cap req.seenVisible
            atts == AttachmentsAt(req.pagePath, req.fileNameOrId)
        IN  /\ req.status \in {200, 403, 404}
            /\ req.status = 404 <=> (pageSeen = {} \/ atts = {})
            /\ req.status = 403 <=>
                    (pageSeen # {} /\ atts # {}
                        /\ \E a \in atts : a.page \notin req.accessVisible)
            /\ req.status = 200 =>
                    \A a \in req.attachments : AttachmentOf(a).page \in req.accessVisible

\* a 403: the page was readable when looked up and no longer at the access check
C4_Witness ==
    /\ Served("ref") /\ req.status = 403
    /\ req.page \in req.seenVisible /\ req.page \notin req.accessVisible

\* what makes a request a caller error
RegexOptionFails(o) ==
    LET v == OrElse(o.regexp, o.regex)
    IN  v # RegexNull /\ v # RegexEmpty
        /\ RegExpThrows(v.source, IF v.slashed THEN v.flags ELSE "")

DepthOptionFails(d) ==
    \/ d.kind = "true"
    \/ d.kind = "str" /\ parseRange(d.s).isNull
    \/ d.kind = "str" /\ ~parseRange(d.s).isNull
                      /\ (parseRange(d.s).start < 1 \/ parseRange(d.s).end < 1)

CallerError ==
    \/ req.endpoint = "ref" /\ req.pagePath = NoPath
    \/ req.endpoint = "refs" /\ req.prefix = NoPath /\ req.pagePath = NoPath
    \/ req.endpoint = "refs" /\ RegexOptionFails(req.options)
    \/ req.endpoint = "refs" /\ req.prefix # NoPath /\ DepthOptionFails(req.options.depth)

LevelsBelow(path, prefix) == Len(Normalized(path)) - Len(Normalized(prefix))

\* C7: with a prefix P and a depth "n" (n >= 1), the depth condition admits a
\* descendant of P exactly when it lies at most n - 1 levels below P.
C7_DepthAdmitsExactly ==
    (req.endpoint = "refs" /\ req.pc = "awaitPages" /\ "depth" \in req.query.conds
        /\ IsSingleDepth(req.options.depth)) =>
        \A p \in Pages :
            IsDescendant(p.path, req.prefix) =>
                (MatchesDepth(p.path, req.query.depth)
                    <=> LevelsBelow(p.path, req.prefix) <= SingleDepth(req.options.depth) - 1)

\* the depth option has no value, or its parsed range has start < 1 or end < 1
DepthOutOfRange(d) ==
    \/ d.kind = "true"
    \/ d.kind = "str" /\ ~parseRange(d.s).isNull
                      /\ (parseRange(d.s).start < 1 \/ parseRange(d.s).end < 1)

\* C8: on GET /refs with a prefix, a depth option without a value, or one whose
\* parsed range has start < 1 or end < 1, makes addDepthCondition fail; the
\* request ends 400, no page or attachment query is executed and no attachment
\* is returned.
C8_InvalidDepthRejected ==
    (req.endpoint = "refs" /\ req.pc # "idle" /\ req.options.parsed
        /\ req.prefix # NoPath /\ DepthOutOfRange(req.options.depth)) =>
        /\ addDepthCondition(req.prefix, req.options.depth).threw
        /\ req.pc = "done" /\ req.status = 400
        /\ Looked = {}
        /\ req.attachments = {} /\ req.pageIds = {}

\* depth "0:2" (start 0, end 2) with a prefix and no other error, answered 400
C8_Witness ==
    /\ Served("refs") /\ req.status = 400 /\ req.prefix = <<"docs">>
    /\ req.options.depth = DepthStr(<<"0", ":", "2">>)
    /\ ~RegexOptionFails(req.options)

====
